---- MODULE Spec2Model ----
(***************************************************************************)
(* A model of EditIndexHelper.py (class EditTool): the timecode converter, *)
(* the skip filters of read_csvs, the csv grouping, the matching passes    *)
(* (find_media, prep_matching, csv_matching) and the EDL assembly          *)
(* (matched_media_to_edls).                                                *)
(*                                                                         *)
(* Python strings are sequences of one-character strings, an optional     *)
(* value is <<>> (None) or <<v>>, and a raised exception moves pc to a     *)
(* state named after the exception.  Each component has its own            *)
(* specification over the shared variables: SpecTC, SpecSkip, SpecGroup,   *)
(* Spec (matching) and SpecEdl.                                            *)
(***************************************************************************)
EXTENDS Integers, Sequences, FiniteSets, TLC

VARIABLES
    pc,             \* position of the running operation
    \* ---- timecode converter
    tc_frames,      \* frames argument of frames_to_tc
    tc_fps,         \* fps_float, a rational <<num, den>>
    tc_text,        \* the timecode string frames_to_tc returned
    tc_back,        \* what tc_to_frames returned for tc_text
    \* ---- read_csvs.is_match_skip
    csv_match_skip, \* prefs['csv_match_skip'], the list of filters
    csv_line,       \* the line under test, column name -> value
    filter_i,       \* index of the next filter of the for loop
    filter_matches, \* the counter
    csv_skip_line,  \* line_dict['csv_skip_line'], None before it is set
    \* ---- _group_csvs
    group_csv,      \* prefs['group_csv']: common, sort, highest_only
    in_csvs,        \* the argument csvs, a dict csv_path -> lines
    group_i,        \* index of the next item of the running for loop
    sort_me,        \* dict group -> list of one_rec
    sort_me_sorted, \* dict group -> sorted list of one_rec
    grouped_csvs,   \* the dict built for the return; what was returned
    \* ---- find_media, prep_matching, csv_matching
    csv_matching,   \* prefs['csv_matching']
    media_files,    \* what get_file_list returns to find_media, with the
                    \* metadata the probe gives for each file
    csvs,           \* self.csvs, a dict csv_path -> list of lines
    media,          \* self.media, a dict media_key -> media_dict
    media_i,        \* index of the next item of "for ... in self.media.items()"
    media_not_matched,      \* the list reported as unmatched
    matched_media_counter,
    runs,           \* how often the two matching passes were run again
    prev_keys,      \* the csv_key values before a run on unmodified lines
    \* ---- matched_media_to_edls
    edl_prefs,      \* prefs['edl'], ['edl_reel'], ['edl_clip'], ['edl_clip_path']
    by_csv,         \* dict csv_file -> list of media items
    edl_i,          \* index of the next item of the running for loop
    edls,           \* self.edls, a dict edl_path -> document
    written         \* the write attempts so far: [path, ok]

tcVars == <<tc_frames, tc_fps, tc_text, tc_back>>

skipVars == <<csv_match_skip, csv_line, filter_i, filter_matches, csv_skip_line>>

groupVars == <<group_csv, in_csvs, group_i, sort_me, sort_me_sorted, grouped_csvs>>

matchVars == <<csv_matching, media_files, csvs, media, media_i,
               media_not_matched, matched_media_counter, runs, prev_keys>>

edlVars == <<edl_prefs, by_csv, edl_i, edls, written>>

vars == <<pc, tcVars, skipVars, groupVars, matchVars, edlVars>>

\* None, and a value that is not None
None == <<>>

Some(v) == <<v>>

\* The variables of a component while another component's specification runs
TCIdle ==
    /\ tc_frames = 0
    /\ tc_fps = <<24, 1>>
    /\ tc_text = <<>>
    /\ tc_back = None

SkipIdle ==
    /\ csv_match_skip = <<>>
    /\ csv_line = [Notes |-> <<>>]
    /\ filter_i = 0
    /\ filter_matches = 0
    /\ csv_skip_line = None

GroupIdle ==
    /\ group_csv = [common |-> "(", sort |-> "(", highest_only |-> FALSE]
    /\ in_csvs = <<>>
    /\ group_i = 0
    /\ sort_me = <<>>
    /\ sort_me_sorted = <<>>
    /\ grouped_csvs = <<>>

MatchIdle ==
    /\ csv_matching = <<>>
    /\ media_files = <<>>
    /\ csvs = <<>>
    /\ media = <<>>
    /\ media_i = 0
    /\ media_not_matched = <<>>
    /\ matched_media_counter = 0
    /\ runs = 0
    /\ prev_keys = None

EdlIdle ==
    /\ edl_prefs = <<>>
    /\ by_csv = <<>>
    /\ edl_i = 0
    /\ edls = <<>>
    /\ written = <<>>

(***************************************************************************)
(* Strings                                                                 *)
(***************************************************************************)
DigitChars == <<"0", "1", "2", "3", "4", "5", "6", "7", "8", "9">>

DigitOf(d) == DigitChars[d + 1]

ValOf(c) == CHOOSE d \in 0..9 : DigitChars[d + 1] = c

IsDigit(c) == \E d \in 0..9 : DigitChars[d + 1] = c

\* The characters of the model in code point order, and str < str
CharOrder == DigitChars \o <<"A", "X", "\\", "_", "a", "b", "x", "{", "}">>

Ord(c) == CHOOSE i \in 1..Len(CharOrder) : CharOrder[i] = c

RECURSIVE StrLess(_, _)
StrLess(s, t) ==
    IF Len(t) = 0 THEN FALSE
    ELSE IF Len(s) = 0 THEN TRUE
    ELSE IF s[1] # t[1] THEN Ord(s[1]) < Ord(t[1])
    ELSE StrLess(Tail(s), Tail(t))

\* os.path.dirname and os.path.basename of a path with forward slashes
RECURSIVE dirname(_)
dirname(path) ==
    IF Len(path) = 0 THEN path
    ELSE IF path[Len(path)] = "/" THEN SubSeq(path, 1, Len(path) - 1)
    ELSE dirname(SubSeq(path, 1, Len(path) - 1))

RECURSIVE basename(_)
basename(path) ==
    IF \A i \in 1..Len(path) : path[i] # "/" THEN path
    ELSE basename(Tail(path))

\* A dict is the sequence of its <<key, value>> items in insertion order.
DictKeys(d) == { d[i][1] : i \in 1..Len(d) }

DictGet(d, key) == d[CHOOSE i \in 1..Len(d) : d[i][1] = key][2]

\* d[key] = value: a new key is appended, an old one keeps its place
DictSet(d, key, value) ==
    IF key \in DictKeys(d)
    THEN [i \in 1..Len(d) |-> IF d[i][1] = key THEN <<key, value>> ELSE d[i]]
    ELSE Append(d, <<key, value>>)

\* str(n) for n >= 0
RECURSIVE IntToStr(_)
IntToStr(n) ==
    IF n < 10 THEN <<DigitOf(n)>>
    ELSE IntToStr(n \div 10) \o <<DigitOf(n % 10)>>

\* str.zfill(w), and "{:0wd}".format(n) for n >= 0
RECURSIVE ZFill(_, _)
ZFill(s, w) == IF Len(s) >= w THEN s ELSE ZFill(<<"0">> \o s, w)

\* float(t) of a string of decimal digits
RECURSIVE StrToInt(_)
StrToInt(s) ==
    IF Len(s) = 0 THEN 0
    ELSE 10 * StrToInt(SubSeq(s, 1, Len(s) - 1)) + ValOf(s[Len(s)])

\* s.split(sep)
RECURSIVE Split(_, _)
Split(s, sep) ==
    IF \A i \in 1..Len(s) : s[i] # sep THEN <<s>>
    ELSE LET k == CHOOSE i \in 1..Len(s) :
                      s[i] = sep /\ \A j \in 1..(i - 1) : s[j] # sep
         IN  <<SubSeq(s, 1, k - 1)>> \o Split(SubSeq(s, k + 1, Len(s)), sep)

\* sep.join(parts)
RECURSIVE Join(_, _)
Join(parts, sep) ==
    IF Len(parts) = 0 THEN <<>>
    ELSE IF Len(parts) = 1 THEN parts[1]
    ELSE parts[1] \o <<sep>> \o Join(Tail(parts), sep)

Min(a, b) == IF a <= b THEN a ELSE b

(***************************************************************************)
(* Token template engine: regex_test                                       *)
(***************************************************************************)
\* source.format_map(Default(tokens)): every {name} is replaced by
\* tokens[name], and stays as it is when tokens has no such key. The sources
\* of the model have balanced braces (format_map raises ValueError otherwise).
RECURSIVE format_map(_, _)
format_map(source, tokens) ==
    IF \A i \in 1..Len(source) : source[i] # "{" THEN source
    ELSE LET a == CHOOSE i \in 1..Len(source) :
                      source[i] = "{" /\ \A j \in 1..(i - 1) : source[j] # "{"
             b == CHOOSE i \in (a + 1)..Len(source) :
                      source[i] = "}" /\ \A j \in (a + 1)..(i - 1) : source[j] # "}"
             name == SubSeq(source, a + 1, b - 1)
             value == IF name \in DOMAIN tokens THEN tokens[name]
                      ELSE <<"{">> \o name \o <<"}">>
         IN  SubSeq(source, 1, a - 1) \o value
                 \o format_map(SubSeq(source, b + 1, Len(source)), tokens)

\* The regular expressions of the model, by their text. "(" does not compile.
Patterns == {"(.+)", "^(.)", ".+", "(a)", "([0-9])", "("}

\* re.compile(pattern) raises re.error
CompileFails(pattern) == pattern = "("

\* the number of capture groups of a pattern
NumGroups(pattern) ==
    IF pattern \in {"(.+)", "^(.)", "(a)", "([0-9])"} THEN 1 ELSE 0

\* compiled.search(s): None, or the match as [from, to, groups]
search(pattern, s) ==
    CASE pattern \in {"(.+)", ".+"} ->
            IF Len(s) = 0 THEN None
            ELSE Some([from |-> 1, to |-> Len(s),
                       groups |-> IF pattern = "(.+)" THEN <<s>> ELSE <<>>])
      [] pattern = "^(.)" ->
            IF Len(s) = 0 THEN None
            ELSE Some([from |-> 1, to |-> 1, groups |-> <<SubSeq(s, 1, 1)>>])
      [] pattern \in {"(a)", "([0-9])"} ->
            LET hit(c) == IF pattern = "(a)" THEN c = "a" ELSE IsDigit(c)
            IN  IF \A i \in 1..Len(s) : ~hit(s[i]) THEN None
                ELSE LET k == CHOOSE i \in 1..Len(s) :
                                  hit(s[i]) /\ \A j \in 1..(i - 1) : ~hit(s[j])
                     IN  Some([from |-> k, to |-> k, groups |-> <<SubSeq(s, k, k)>>])
      [] OTHER -> None

\* A replacement is a string in which a backslash and a digit name a group.
\* re.sub parses it before it matches, and raises "invalid group reference"
\* for a group the pattern does not have.
ReplValid(pattern, repl) ==
    \A i \in 1..(Len(repl) - 1) :
        repl[i] = "\\" => ValOf(repl[i + 1]) <= NumGroups(pattern)

RECURSIVE expand(_, _)
expand(repl, groups) ==
    IF Len(repl) = 0 THEN <<>>
    ELSE IF repl[1] = "\\" /\ Len(repl) >= 2
         THEN groups[ValOf(repl[2])] \o expand(SubSeq(repl, 3, Len(repl)), groups)
         ELSE <<repl[1]>> \o expand(Tail(repl), groups)

\* re.sub(compiled, repl, s) for a valid repl: every non-overlapping match,
\* left to right; an anchored pattern matches at the start only.
RECURSIVE sub(_, _, _)
sub(pattern, repl, s) ==
    LET m == search(pattern, s)
    IN  IF m = None THEN s
        ELSE LET rest == SubSeq(s, m[1].to + 1, Len(s))
             IN  SubSeq(s, 1, m[1].from - 1) \o expand(repl, m[1].groups)
                     \o (IF pattern = "^(.)" THEN rest ELSE sub(pattern, repl, rest))

\* regex_test(source, tokens, pattern, repl) for a source that is a string:
\* the substitution when repl is not empty, else group 1 of the first match;
\* '' when the pattern does not compile, the substitution raises, nothing
\* matches or the pattern has no group 1.
regex_test(source, tokens, pattern, repl) ==
    LET filled_source == format_map(source, tokens)
    IN  IF CompileFails(pattern) THEN <<>>
        ELSE IF repl # <<>>
             THEN IF ReplValid(pattern, repl) THEN sub(pattern, repl, filled_source)
                  ELSE <<>>
             ELSE LET m == search(pattern, filled_source)
                  IN  IF m # None /\ NumGroups(pattern) >= 1 THEN m[1].groups[1]
                      ELSE <<>>

\* dict.get(key): None when the key is missing
Get(d, key) == IF key \in DOMAIN d THEN Some(d[key]) ELSE None

(***************************************************************************)
(* Timecode converter: tc_to_frames, frames_to_tc                          *)
(***************************************************************************)
\* Python 3 round() of the rational num/den (den > 0, num >= 0): to the
\* nearest integer, a tie to the even one.
PyRound(num, den) ==
    LET q == num \div den
        r == num % den
    IN  IF 2 * r < den THEN q
        ELSE IF 2 * r > den THEN q + 1
        ELSE IF q % 2 = 0 THEN q ELSE q + 1

\* int(round(fps_float))
FpsInt(fps_float) == PyRound(fps_float[1], fps_float[2])

\* frames_to_tc with the minute field not reduced modulo 60
frames_to_tc_nomod(frames, fps_float) ==
    LET fps == FpsInt(fps_float)
        h == frames \div (3600 * fps)
        m == frames \div (60 * fps)
        s == (frames % (60 * fps)) \div fps
        f == (frames % (60 * fps)) % fps
    IN  Join(<<ZFill(IntToStr(h), 2), ZFill(IntToStr(m), 2),
               ZFill(IntToStr(s), 2), ZFill(IntToStr(f), 2)>>, ":")

\* The result when int(round(fps_float)) is not 0 (RaisesZeroDivision
\* otherwise). int(x / y) of non-negative integers is x \div y while the
\* quotient is exact in double precision.
frames_to_tc(frames, fps_float) ==
    LET fps == FpsInt(fps_float)
        h == frames \div (3600 * fps)
        m == (frames \div (60 * fps)) % 60
        s == (frames % (60 * fps)) \div fps
        f == (frames % (60 * fps)) % fps
    IN  Join(<<ZFill(IntToStr(h), 2), ZFill(IntToStr(m), 2),
               ZFill(IntToStr(s), 2), ZFill(IntToStr(f), 2)>>, ":")

\* _seconds: sum(f * float(t) for f, t in zip((3600, 60, 1, 1 / fr_int),
\* value.split(':'))), as the numerator of a fraction over fr_int; zip stops
\* at the shorter of the two.
RECURSIVE SecondsNum(_, _, _)
SecondsNum(parts, weights, i) ==
    IF i > Min(Len(parts), Len(weights)) THEN 0
    ELSE weights[i] * StrToInt(parts[i]) + SecondsNum(parts, weights, i + 1)

\* round(_frames(_seconds(tc, fr_int), fr_int)), when fr_int is not 0
\* (RaisesZeroDivision otherwise): secs is secsNum / fr_int.
tc_to_frames(tc, fps_float) ==
    LET fr_int == FpsInt(fps_float)
        secsNum == SecondsNum(Split(tc, ":"),
                              <<3600 * fr_int, 60 * fr_int, fr_int, 1>>, 1)
    IN  PyRound(secsNum * fr_int, fr_int)

\* frames / (3600 * fps) in frames_to_tc and 1 / fr_int in tc_to_frames
\* divide by int(round(fps_float))
RaisesZeroDivision(fps_float) == FpsInt(fps_float) = 0

\* ---- the round trip, one function per step
MaxFrames == 130

\* frame rates > 0: 0.4, 0.5, 0.51, 1, 1.5, 2.5, 23.976, 24, 25, 29.97
FpsValues ==
    {<<2, 5>>, <<1, 2>>, <<51, 100>>, <<1, 1>>, <<3, 2>>, <<5, 2>>,
     <<2997, 125>>, <<24, 1>>, <<25, 1>>, <<2997, 100>>}

\* frame counts: the small ones, and those around every field's carry up to
\* three-digit hours
FrameValues ==
    (0..MaxFrames) \cup
    { ((hh * 60 + mm) * 60 + ss) * r + ff :
        hh \in {0, 1, 99, 100}, mm \in {0, 59}, ss \in {0, 59},
        ff \in {0, 1}, r \in {1, 2, 24, 25, 30} }

TCInit ==
    /\ pc = "tc_start"
    /\ tc_frames \in FrameValues
    /\ tc_fps \in FpsValues
    /\ tc_text = <<>>
    /\ tc_back = None
    /\ SkipIdle
    /\ GroupIdle
    /\ MatchIdle
    /\ EdlIdle

FramesToTc ==
    /\ pc = "tc_start"
    /\ IF RaisesZeroDivision(tc_fps)
       THEN pc' = "ZeroDivisionError" /\ UNCHANGED tc_text
       ELSE pc' = "tc_formatted" /\ tc_text' = frames_to_tc(tc_frames, tc_fps)
    /\ UNCHANGED <<tc_frames, tc_fps, tc_back, skipVars, groupVars, matchVars, edlVars>>

TcToFrames ==
    /\ pc = "tc_formatted"
    /\ tc_back' = Some(tc_to_frames(tc_text, tc_fps))
    /\ pc' = "tc_done"
    /\ UNCHANGED <<tc_frames, tc_fps, tc_text, skipVars, groupVars, matchVars, edlVars>>

TCNext == FramesToTc \/ TcToFrames

SpecTC == TCInit /\ [][TCNext]_vars

\* C4 as stated: for every frame rate fps > 0 and every n >= 0 the round
\* trip tc_to_frames(frames_to_tc(n, fps), fps) ends and returns n.
C4_AnyPositiveFps ==
    pc \in {"tc_done", "ZeroDivisionError"} => tc_back = Some(tc_frames)

\* C4, amended: for every frame rate that rounds to an integer >= 1 and every
\* n >= 0, tc_to_frames(frames_to_tc(n, fps), fps) = n.
C4_RoundTrip ==
    (pc \in {"tc_done", "ZeroDivisionError"} /\ FpsInt(tc_fps) >= 1)
        => (pc = "tc_done" /\ tc_back = Some(tc_frames))

\* a round trip at 23.976 fps through a timecode with every field non-zero
C4_Witness ==
    /\ pc = "tc_done"
    /\ tc_fps = <<2997, 125>>
    /\ tc_frames = ((1 * 60 + 59) * 60 + 59) * 24 + 1
    /\ tc_text = <<"0", "1", ":", "5", "9", ":", "5", "9", ":", "0", "1">>
    /\ tc_back = Some(tc_frames)

(***************************************************************************)
(* read_csvs.is_match_skip: the skip filters                               *)
(***************************************************************************)
\* a filter that counts every non-empty result, inverted or not
FilterFires_noinvert(one_filter, reg_test) ==
    /\ reg_test # <<>>
    /\ one_filter.equals # <<>>
    /\ one_filter.equals = reg_test

\* one pass of the loop body after regex_test: whether filter_matches += 1
FilterFires(one_filter, reg_test) ==
    /\ reg_test # <<>>
    /\ IF one_filter.invert
       THEN one_filter.equals # <<>> /\ one_filter.equals # reg_test
       ELSE one_filter.equals # <<>> /\ one_filter.equals = reg_test

MaxFilters == 2

\* the filters a preference file may hold: over the column "Notes" (and one
\* over a column the line does not have)
FilterPool ==
    { [column |-> "Notes", pattern |-> p, repl |-> r, equals |-> e, invert |-> v] :
        p \in {"(.+)", "^(.)", "("}, r \in {<<>>, <<"x">>},
        e \in {<<>>, <<"a">>}, v \in BOOLEAN }
    \cup { [column |-> "Reel", pattern |-> "(.+)", repl |-> <<>>,
            equals |-> <<"a">>, invert |-> FALSE] }

FilterLists ==
    UNION { [1..n -> FilterPool] : n \in 0..MaxFilters }

SkipLines == { [Notes |-> v] : v \in {<<>>, <<"a">>, <<"a", "b">>, <<"b">>} }

SkipInit ==
    /\ pc = "skip_loop"
    /\ csv_match_skip \in FilterLists
    /\ csv_line \in SkipLines
    /\ filter_i = 1
    /\ filter_matches = 0
    /\ csv_skip_line = None
    /\ TCIdle
    /\ GroupIdle
    /\ MatchIdle
    /\ EdlIdle

\* one iteration of the for loop; csv_line.get of a missing column is None,
\* and regex_test raises AttributeError on None.format_map
SkipFilterStep ==
    /\ pc = "skip_loop"
    /\ filter_i <= Len(csv_match_skip)
    /\ LET one_filter == csv_match_skip[filter_i]
           source == Get(csv_line, one_filter.column)
       IN  IF source = None
           THEN /\ pc' = "AttributeError"
                /\ UNCHANGED <<filter_i, filter_matches>>
           ELSE LET reg_test == regex_test(source[1], <<>>, one_filter.pattern,
                                           one_filter.repl)
                IN  /\ filter_matches' =
                           IF FilterFires(one_filter, reg_test)
                           THEN filter_matches + 1 ELSE filter_matches
                    /\ filter_i' = filter_i + 1
                    /\ pc' = pc
    /\ UNCHANGED <<csv_match_skip, csv_line, csv_skip_line, tcVars, groupVars, matchVars, edlVars>>

\* the return of is_match_skip, stored by read_csvs as csv_skip_line
SkipReturn ==
    /\ pc = "skip_loop"
    /\ filter_i > Len(csv_match_skip)
    /\ csv_skip_line' = Some(filter_matches > 0)
    /\ pc' = "skip_done"
    /\ UNCHANGED <<csv_match_skip, csv_line, filter_i, filter_matches, tcVars, groupVars, matchVars, edlVars>>

SkipNext == SkipFilterStep \/ SkipReturn

SpecSkip == SkipInit /\ [][SkipNext]_vars

\* the Template Engine result of a filter on the line under test
FilterResult(f) == regex_test(csv_line[f.column], <<>>, f.pattern, f.repl)

FiltersOf(list) == { list[i] : i \in 1..Len(list) }

\* C10 as stated: the line is marked skip exactly when some filter has a
\* non-empty result that equals its target (not inverted) or differs from it
\* (inverted).
C10_SkipIffSomeFilter ==
    pc = "skip_done" =>
        (csv_skip_line = Some(TRUE)
            <=> \E f \in FiltersOf(csv_match_skip) :
                    /\ FilterResult(f) # <<>>
                    /\ IF f.invert THEN FilterResult(f) # f.equals
                       ELSE FilterResult(f) = f.equals)

\* C10, amended: the line is marked skip exactly when some filter with a
\* non-empty target has a non-empty result that equals the target (not
\* inverted) or differs from it (inverted).
C10_SkipIffSomeTargetedFilter ==
    pc = "skip_done" =>
        (csv_skip_line = Some(TRUE)
            <=> \E f \in FiltersOf(csv_match_skip) :
                    /\ FilterResult(f) # <<>>
                    /\ f.equals # <<>>
                    /\ IF f.invert THEN FilterResult(f) # f.equals
                       ELSE FilterResult(f) = f.equals)

\* two filters, the first with an empty result and the second, inverted,
\* firing: the line is skipped by the second alone
C10_Witness ==
    /\ pc = "skip_done"
    /\ Len(csv_match_skip) = 2
    /\ FilterResult(csv_match_skip[1]) = <<>>
    /\ csv_match_skip[2].invert
    /\ FilterResult(csv_match_skip[2]) = <<"b">>
    /\ csv_skip_line = Some(TRUE)

(***************************************************************************)
(* Batch grouping: _group_csvs                                             *)
(***************************************************************************)
\* compiled.search(name), then group(1) under try/except: None when nothing
\* matches or the pattern has no group 1
Group1(pattern, name) ==
    LET m == search(pattern, name)
    IN  IF m # None /\ NumGroups(pattern) >= 1 THEN Some(m[1].groups[1]) ELSE None

\* sorted() compares the keys with <: a str with None, or None with None,
\* raises TypeError; one item alone is never compared
SortRaises(csv_list) ==
    Len(csv_list) >= 2 /\ \E i \in 1..Len(csv_list) : csv_list[i].sort = None

\* sorted(csv_list, key=lambda d: d['sort']) of string keys: stable
RECURSIVE InsertBySort(_, _)
InsertBySort(sorted, rec) ==
    IF Len(sorted) = 0 THEN <<rec>>
    ELSE IF StrLess(rec.sort[1], sorted[Len(sorted)].sort[1])
         THEN Append(InsertBySort(SubSeq(sorted, 1, Len(sorted) - 1), rec),
                     sorted[Len(sorted)])
         ELSE Append(sorted, rec)

RECURSIVE SortedBySort(_)
SortedBySort(csv_list) ==
    IF Len(csv_list) <= 1 THEN csv_list
    ELSE InsertBySort(SortedBySort(SubSeq(csv_list, 1, Len(csv_list) - 1)),
                      csv_list[Len(csv_list)])

\* the if/else that files one_rec under its group: a list is extended only
\* for a group that is not None
Bucketed(buckets, one_rec) ==
    IF one_rec.group # None /\ one_rec.group \in DictKeys(buckets)
    THEN DictSet(buckets, one_rec.group,
                 Append(DictGet(buckets, one_rec.group), one_rec))
    ELSE DictSet(buckets, one_rec.group, <<one_rec>>)

\* grouped_csvs after the body of the second loop for one sorted group
RECURSIVE StoreAll(_, _, _)
StoreAll(grouped, sorted, contents) ==
    IF Len(sorted) = 0 THEN grouped
    ELSE StoreAll(DictSet(grouped, sorted[1].csv_path,
                          DictGet(contents, sorted[1].csv_path)),
                  Tail(sorted), contents)

Stored(grouped, sorted, contents, highest_only) ==
    IF highest_only
    THEN LET last == sorted[Len(sorted)]
         IN  DictSet(grouped, last.csv_path, DictGet(contents, last.csv_path))
    ELSE StoreAll(grouped, sorted, contents)

MaxCsvs == 3

\* csv files of one folder; the listing order is the file system's
CsvPaths ==
    { <<"r", "/">> \o n :
        n \in {<<"a", "1">>, <<"a", "2">>, <<"b", "1">>, <<"b", "2">>, <<"b">>} }

\* the lists of n distinct elements of S
Arrangements(S, n) ==
    { f \in [1..n -> S] : \A i, j \in 1..n : i # j => f[i] # f[j] }

\* the lines read from a csv file, here one line that names the file
ContentOf(path) == <<[Notes |-> basename(path)]>>

CsvDicts ==
    { [i \in 1..Len(ps) |-> <<ps[i], ContentOf(ps[i])>>] :
        ps \in UNION { Arrangements(CsvPaths, n) : n \in 1..MaxCsvs } }

GroupInit ==
    /\ pc = "group_compile"
    /\ group_csv \in [common : {"^(.)", "(a)", "("},
                      sort : {"([0-9])", ".+", "("},
                      highest_only : BOOLEAN]
    /\ in_csvs \in CsvDicts
    /\ group_i = 1
    /\ sort_me = <<>>
    /\ sort_me_sorted = <<>>
    /\ grouped_csvs = <<>>
    /\ TCIdle
    /\ SkipIdle
    /\ MatchIdle
    /\ EdlIdle

\* the two re.compile calls; with either pattern invalid the argument is
\* returned as it is
GroupCompile ==
    /\ pc = "group_compile"
    /\ IF CompileFails(group_csv.common) \/ CompileFails(group_csv.sort)
       THEN pc' = "group_done" /\ grouped_csvs' = in_csvs
       ELSE pc' = "group_bucket" /\ UNCHANGED grouped_csvs
    /\ UNCHANGED <<group_csv, in_csvs, group_i, sort_me, sort_me_sorted,
                   tcVars, skipVars, matchVars, edlVars>>

\* one iteration of "for csv_path, one_csv in csvs.items()"
GroupBucketStep ==
    /\ pc = "group_bucket"
    /\ group_i <= Len(in_csvs)
    /\ LET csv_path == in_csvs[group_i][1]
           name == basename(csv_path)
           one_rec == [csv_path |-> csv_path, csv_name |-> name,
                       group |-> Group1(group_csv.common, name),
                       sort |-> Group1(group_csv.sort, name)]
       IN  sort_me' = Bucketed(sort_me, one_rec)
    /\ group_i' = group_i + 1
    /\ UNCHANGED <<pc, group_csv, in_csvs, sort_me_sorted, grouped_csvs,
                   tcVars, skipVars, matchVars, edlVars>>

GroupBucketEnd ==
    /\ pc = "group_bucket"
    /\ group_i > Len(in_csvs)
    /\ pc' = "group_sort"
    /\ group_i' = 1
    /\ UNCHANGED <<group_csv, in_csvs, sort_me, sort_me_sorted, grouped_csvs,
                   tcVars, skipVars, matchVars, edlVars>>

\* one iteration of "for group, csv_list in sort_me.items()"
GroupSortStep ==
    /\ pc = "group_sort"
    /\ group_i <= Len(sort_me)
    /\ LET group == sort_me[group_i][1]
           csv_list == sort_me[group_i][2]
       IN  IF SortRaises(csv_list)
           THEN /\ pc' = "TypeError"
                /\ UNCHANGED <<group_i, sort_me_sorted, grouped_csvs>>
           ELSE /\ sort_me_sorted' =
                       DictSet(sort_me_sorted, group, SortedBySort(csv_list))
                /\ grouped_csvs' = Stored(grouped_csvs, SortedBySort(csv_list),
                                          in_csvs, group_csv.highest_only)
                /\ group_i' = group_i + 1
                /\ pc' = pc
    /\ UNCHANGED <<group_csv, in_csvs, sort_me, tcVars, skipVars, matchVars, edlVars>>

GroupReturn ==
    /\ pc = "group_sort"
    /\ group_i > Len(sort_me)
    /\ pc' = "group_done"
    /\ UNCHANGED <<groupVars, tcVars, skipVars, matchVars, edlVars>>

GroupNext ==
    GroupCompile \/ GroupBucketStep \/ GroupBucketEnd \/ GroupSortStep \/ GroupReturn

SpecGroup == GroupInit /\ [][GroupNext]_vars

\* ---- what the claims speak of
PatternsValid == ~CompileFails(group_csv.common) /\ ~CompileFails(group_csv.sort)

InputPaths == DictKeys(in_csvs)

ReturnedPaths == DictKeys(grouped_csvs)

GroupKeyOf(path) == Group1(group_csv.common, basename(path))

SortKeyOf(path) == Group1(group_csv.sort, basename(path))

\* the place of a path in the returned dict
PlaceOf(path) == CHOOSE i \in 1..Len(grouped_csvs) : grouped_csvs[i][1] = path

\* sortKey p <= sortKey q by string comparison, for two keys that exist
SortKeyLeq(p, q) ==
    (SortKeyOf(p) # None /\ SortKeyOf(q) # None)
        => ~StrLess(SortKeyOf(q)[1], SortKeyOf(p)[1])

\* C2: with highest_only set, the returned dict holds exactly one Batch per
\* distinct groupKey of the input (None is one group), and it is a Batch of
\* maximal sortKey among all input Batches of that group.
C2_HighestOnlyKeepsMaximal ==
    (pc = "group_done" /\ PatternsValid /\ group_csv.highest_only) =>
        \A p \in InputPaths :
            \E k \in ReturnedPaths :
                /\ GroupKeyOf(k) = GroupKeyOf(p)
                /\ \A k2 \in ReturnedPaths : GroupKeyOf(k2) = GroupKeyOf(p) => k2 = k
                /\ \A q \in InputPaths :
                       GroupKeyOf(q) = GroupKeyOf(p) => SortKeyLeq(q, k)

\* C3: with highest_only not set, every input Batch is returned exactly once
\* (those without a groupKey too), and the Batches of one bucket are returned
\* in ascending sortKey order.
C3_KeepAllKeepsEveryBatch ==
    (pc = "group_done" /\ PatternsValid /\ ~group_csv.highest_only) =>
        /\ \A p \in InputPaths :
               Cardinality({ i \in 1..Len(grouped_csvs) : grouped_csvs[i][1] = p }) = 1
        /\ \A p, q \in ReturnedPaths :
               (GroupKeyOf(p) = GroupKeyOf(q) /\ PlaceOf(p) < PlaceOf(q))
                   => SortKeyLeq(p, q)

(***************************************************************************)
(* Matching engine: find_media, prep_matching, csv_matching                *)
(***************************************************************************)
\* parse_file_name: the tokens full_path, path and name of a file name that
\* has no drive, no extension and no frame number
parse_file_name(file_name) ==
    (<<"f", "u", "l", "l", "_", "p", "a", "t", "h">> :> file_name)
    @@ (<<"p", "a", "t", "h">> :> dirname(file_name))
    @@ (<<"n", "a", "m", "e">> :> basename(file_name))

\* the loop of find_media over files[i..]: a file whose regex result is empty
\* is left out; a later file with the same result replaces the media_dict of
\* an earlier one
RECURSIVE FindMediaLoop(_, _, _, _)
FindMediaLoop(files, i, prefs, found) ==
    IF i > Len(files) THEN found
    ELSE LET one_file == files[i]
             result == regex_test(prefs.media, parse_file_name(one_file.file),
                                  prefs.media_pattern, prefs.media_repl)
         IN  FindMediaLoop(files, i + 1, prefs,
                 IF result # <<>>
                 THEN DictSet(found, result,
                              [file |-> one_file.file, metadata |-> one_file.metadata,
                               csv_line |-> None, csv_file |-> None])
                 ELSE found)

\* a key that is added to the key the line has
PrepKey_appended(one_line, prefs) ==
    one_line.csv_key
        \o regex_test(one_line[prefs.column], <<>>, prefs.csv_pattern, prefs.csv_repl)

\* the key prep_matching gives a line
PrepKey(one_line, prefs) ==
    regex_test(one_line[prefs.column], <<>>, prefs.csv_pattern, prefs.csv_repl)

\* a skip test that never skips
SkipLine_never(one_line) == FALSE

\* "if one_line['csv_skip_line']: continue", in prep_matching and csv_matching
SkipLine(one_line) == one_line.csv_skip_line

\* a temporal check that passes when a frame value is missing
is_tc_matching_lax(csv_in, media_in, csv_out, media_out) ==
    IF csv_in = None \/ media_in = None \/ csv_out = None \/ media_out = None
    THEN TRUE
    ELSE csv_in[1] >= media_in[1] /\ csv_out[1] <= media_out[1]

is_tc_matching(csv_in, media_in, csv_out, media_out) ==
    IF csv_in = None \/ media_in = None \/ csv_out = None \/ media_out = None
    THEN FALSE
    ELSE csv_in[1] >= media_in[1] /\ csv_out[1] <= media_out[1]

NotFound == [outcome |-> "not_found"]

\* an unmatched list that is never appended to
not_matched_after_forgotten(found, not_matched, file) == not_matched

\* "if not found: media_not_matched.append(media_dict['file'])"
not_matched_after(found, not_matched, file) ==
    IF ~found THEN Append(not_matched, file) ELSE not_matched

\* a scan that gives up at the first key-equal line, accepted or not
RECURSIVE Scan_first_key(_, _, _, _, _)
Scan_first_key(all, ci, li, media_key, media_dict) ==
    IF ci > Len(all) THEN NotFound
    ELSE IF li > Len(all[ci][2]) THEN Scan_first_key(all, ci + 1, 1, media_key, media_dict)
    ELSE LET one_line == all[ci][2][li]
         IN  IF SkipLine(one_line) \/ one_line.csv_key # media_key
             THEN Scan_first_key(all, ci, li + 1, media_key, media_dict)
             ELSE IF ~csv_matching.match_timecode
                  THEN [outcome |-> "found", ci |-> ci, li |-> li]
                  ELSE IF media_dict.metadata = None THEN [outcome |-> "KeyError"]
                  ELSE IF is_tc_matching(one_line.csv_sin_frames,
                                         media_dict.metadata[1].tc_in_frames,
                                         one_line.csv_sout_frames,
                                         media_dict.metadata[1].tc_out_frames)
                       THEN [outcome |-> "found", ci |-> ci, li |-> li]
                       ELSE NotFound

\* The two nested loops of csv_matching for one media item, from line li of
\* csv ci on: the place of the first line that is accepted (both loops break
\* there), not_found when every csv is exhausted, KeyError when the temporal
\* check reads tc_in_frames of a metadata dict that is empty.
RECURSIVE Scan(_, _, _, _, _)
Scan(all, ci, li, media_key, media_dict) ==
    IF ci > Len(all) THEN NotFound
    ELSE IF li > Len(all[ci][2]) THEN Scan(all, ci + 1, 1, media_key, media_dict)
    ELSE LET one_line == all[ci][2][li]
         IN  IF SkipLine(one_line) \/ one_line.csv_key # media_key
             THEN Scan(all, ci, li + 1, media_key, media_dict)
             ELSE IF ~csv_matching.match_timecode
                  THEN [outcome |-> "found", ci |-> ci, li |-> li]
                  ELSE IF media_dict.metadata = None THEN [outcome |-> "KeyError"]
                  ELSE IF is_tc_matching(one_line.csv_sin_frames,
                                         media_dict.metadata[1].tc_in_frames,
                                         one_line.csv_sout_frames,
                                         media_dict.metadata[1].tc_out_frames)
                       THEN [outcome |-> "found", ci |-> ci, li |-> li]
                       ELSE Scan(all, ci, li + 1, media_key, media_dict)

\* ---- the inputs
MaxLines == 3
MaxMedia == 2

Frames(a, b) == [tc_in_frames |-> Some(a), tc_out_frames |-> Some(b)]

\* The media files found and what the probe gives for each: metadata with a
\* timecode range, metadata without timecode (None frames), no metadata ({}).
MediaFilePool ==
    { [file |-> <<"m", "/", "a", "1">>, metadata |-> Some(Frames(5, 25))],
      [file |-> <<"m", "/", "b", "1">>, metadata |-> Some(Frames(12, 18))],
      [file |-> <<"m", "/", "a", "2">>, metadata |-> None],
      [file |-> <<"m", "/", "b", "2">>,
       metadata |-> Some([tc_in_frames |-> None, tc_out_frames |-> None])] }

\* prefs['edl']['frame_rate']
FrameRate == <<24, 1>>

\* read_csvs.csv_tc_to_frames for one timecode column: None for an empty value
csv_tc_to_frames(v) == IF v # <<>> THEN Some(tc_to_frames(v, FrameRate)) ELSE None

\* a timecode column of a csv file: empty, or the timecode of a frame count
Timecode(frames) == IF frames = None THEN <<>> ELSE frames_to_tc(frames[1], FrameRate)

\* The line read_csvs leaves for a csv row with the matching column File and
\* the four timecode columns (source in/out, record in/out): the columns,
\* their frame counts, the skip flag, an empty csv_key.
Line(col, sin, sout, rin, skip) ==
    [File |-> col,
     csv_sin |-> Timecode(sin), csv_sout |-> Timecode(sout),
     csv_rin |-> Timecode(rin), csv_rout |-> Timecode(rin),
     csv_sin_frames |-> csv_tc_to_frames(Timecode(sin)),
     csv_sout_frames |-> csv_tc_to_frames(Timecode(sout)),
     csv_rin_frames |-> csv_tc_to_frames(Timecode(rin)),
     csv_rout_frames |-> csv_tc_to_frames(Timecode(rin)),
     csv_skip_line |-> skip, csv_key |-> <<>>, csv_matched_media |-> None]

LinePool ==
    { Line(<<"a", "x">>, Some(10), Some(20), Some(50), FALSE),
      Line(<<"b", "x">>, Some(10), Some(20), Some(10), FALSE),
      Line(<<"b", "y">>, Some(13), Some(17), Some(30), FALSE),
      Line(<<"b", "z">>, Some(13), Some(17), Some(20), TRUE),
      Line(<<"a", "y">>, None, None, None, FALSE) }

\* the ways to cut a list of lines into csv files, in order
RECURSIVE Cuts(_)
Cuts(lines) ==
    IF Len(lines) = 0 THEN {<<>>}
    ELSE UNION { { <<SubSeq(lines, 1, k)>> \o rest :
                     rest \in Cuts(SubSeq(lines, k + 1, Len(lines))) } :
                 k \in 1..Len(lines) }

CsvPathOf(i) == <<"r", "/", "e">> \o IntToStr(i) \o <<".", "c", "s", "v">>

\* read_csvs keeps a csv file only if it has a line that is not skipped
CsvsAfterRead ==
    { [i \in 1..Len(cut) |-> <<CsvPathOf(i), cut[i]>>] :
        cut \in { c \in UNION { Cuts(ls) :
                       ls \in UNION { Arrangements(LinePool, n) : n \in 1..MaxLines } } :
                  \A i \in 1..Len(c) : \E j \in 1..Len(c[i]) : ~c[i][j].csv_skip_line } }

MatchingPrefs ==
    [column : {"File"}, csv_pattern : {"^(.)"}, csv_repl : {<<>>},
     media : {<<"{", "n", "a", "m", "e", "}">>},
     media_pattern : {"^(.)", "(a)", "("}, media_repl : {<<>>},
     match_timecode : BOOLEAN]

\* The state before find_media: after read_csvs, or with the empty self.csvs
\* that __init__ leaves when read_csvs was not called.
Init ==
    /\ pc = "find_media"
    /\ csv_matching \in MatchingPrefs
    /\ media_files \in UNION { Arrangements(MediaFilePool, n) : n \in 1..MaxMedia }
    /\ csvs \in CsvsAfterRead \cup {<<>>}
    /\ media = <<>>
    /\ media_i = 0
    /\ media_not_matched = <<>>
    /\ matched_media_counter = 0
    /\ runs = 0
    /\ prev_keys = None
    /\ TCIdle
    /\ SkipIdle
    /\ GroupIdle
    /\ EdlIdle

\* find_media: with an invalid media_pattern it returns None and leaves
\* self.media empty
find_media ==
    /\ pc = "find_media"
    /\ media' = IF CompileFails(csv_matching.media_pattern) THEN <<>>
                ELSE FindMediaLoop(media_files, 1, csv_matching, <<>>)
    /\ pc' = "prep_matching"
    /\ UNCHANGED <<csv_matching, media_files, csvs, media_i, media_not_matched,
                   matched_media_counter, runs, prev_keys, tcVars, skipVars,
                   groupVars, edlVars>>

\* prep_matching: every key is reset, and set again for the lines that are
\* not skipped and have a regex result
prep_matching ==
    /\ pc = "prep_matching"
    /\ csvs' = [c \in 1..Len(csvs) |->
                  <<csvs[c][1],
                    [l \in 1..Len(csvs[c][2]) |->
                        LET one_line == csvs[c][2][l]
                        IN  [one_line EXCEPT !.csv_key =
                                IF SkipLine(one_line) THEN <<>>
                                ELSE PrepKey(one_line, csv_matching)]]>>]
    /\ pc' = "csv_matching"
    /\ UNCHANGED <<csv_matching, media_files, media, media_i, media_not_matched,
                   matched_media_counter, runs, prev_keys, tcVars, skipVars,
                   groupVars, edlVars>>

\* a check of self.media alone
EmptyCollection_media_only(m, c) == m = <<>>

\* "self.media is None or self.media == {}", and the same for self.csvs
EmptyCollection(m, c) == m = <<>> \/ c = <<>>

\* the entry of csv_matching: the two emptiness checks, then the counter and
\* the unmatched list are initialised
csv_matching_enter ==
    /\ pc = "csv_matching"
    /\ IF EmptyCollection(media, csvs)
       THEN /\ pc' = "EditToolException"
            /\ UNCHANGED <<media_i, media_not_matched, matched_media_counter>>
       ELSE /\ pc' = "csv_matching_loop"
            /\ media_i' = 1
            /\ media_not_matched' = <<>>
            /\ matched_media_counter' = 0
    /\ UNCHANGED <<csv_matching, media_files, csvs, media, runs, prev_keys,
                   tcVars, skipVars, groupVars, edlVars>>

\* one iteration of "for media_key, media_dict in self.media.items()"
csv_matching_item ==
    /\ pc = "csv_matching_loop"
    /\ media_i <= Len(media)
    /\ LET media_key == media[media_i][1]
           media_dict == media[media_i][2]
           hit == Scan(csvs, 1, 1, media_key, media_dict)
       IN  CASE hit.outcome = "KeyError" ->
                    /\ pc' = "KeyError"
                    /\ UNCHANGED <<csvs, media, media_i, media_not_matched,
                                   matched_media_counter>>
             [] hit.outcome = "found" ->
                    /\ media' = [media EXCEPT ![media_i][2] =
                                    [media_dict EXCEPT
                                        !.csv_line = Some(<<hit.ci, hit.li>>),
                                        !.csv_file = Some(csvs[hit.ci][1])]]
                    /\ csvs' = [csvs EXCEPT ![hit.ci][2][hit.li].csv_matched_media =
                                    Some(media_dict.file)]
                    /\ matched_media_counter' = matched_media_counter + 1
                    /\ media_not_matched' =
                           not_matched_after(TRUE, media_not_matched, media_dict.file)
                    /\ media_i' = media_i + 1
                    /\ UNCHANGED pc
             [] OTHER ->
                    /\ media_not_matched' =
                           not_matched_after(FALSE, media_not_matched, media_dict.file)
                    /\ media_i' = media_i + 1
                    /\ UNCHANGED <<pc, csvs, media, matched_media_counter>>
    /\ UNCHANGED <<csv_matching, media_files, runs, prev_keys,
                   tcVars, skipVars, groupVars, edlVars>>

\* the end of csv_matching: the counts and the unmatched list are logged
csv_matching_report ==
    /\ pc = "csv_matching_loop"
    /\ media_i > Len(media)
    /\ pc' = "csv_matching_done"
    /\ UNCHANGED <<matchVars, tcVars, skipVars, groupVars, edlVars>>

Next ==
    find_media \/ prep_matching \/ csv_matching_enter \/ csv_matching_item
        \/ csv_matching_report

Spec == Init /\ [][Next]_vars

\* ---- what the claims speak of
\* the places <<csv, line>> of the lines of self.csvs
Places == { p \in (1..Len(csvs)) \X (1..MaxLines) : p[2] <= Len(csvs[p[1]][2]) }

LineAt(p) == csvs[p[1]][2][p[2]]

\* batch order, then line order
Before(p, q) == p[1] < q[1] \/ (p[1] = q[1] /\ p[2] < q[2])

MediaItems == 1..Len(media)

KeyOf(k) == media[k][1]

ItemOf(k) == media[k][2]

\* the iteration of csv_matching for item k is over
Processed(k) ==
    pc \in {"csv_matching_loop", "csv_matching_done", "KeyError"} /\ k < media_i

\* record.sourceIn >= item.timecodeIn and record.sourceOut <= item.timecodeOut,
\* all four present
Contained(k, p) ==
    /\ ItemOf(k).metadata # None
    /\ ItemOf(k).metadata[1].tc_in_frames # None
    /\ ItemOf(k).metadata[1].tc_out_frames # None
    /\ LineAt(p).csv_sin_frames # None
    /\ LineAt(p).csv_sout_frames # None
    /\ LineAt(p).csv_sin_frames[1] >= ItemOf(k).metadata[1].tc_in_frames[1]
    /\ LineAt(p).csv_sout_frames[1] <= ItemOf(k).metadata[1].tc_out_frames[1]

KeyEqual(k, p) == LineAt(p).csv_key = KeyOf(k)

Accepting(k, p) ==
    /\ ~LineAt(p).csv_skip_line
    /\ KeyEqual(k, p)
    /\ csv_matching.match_timecode => Contained(k, p)

Unmatched == { media_not_matched[i] : i \in 1..Len(media_not_matched) }

\* C1: the Record recorded for a MediaItem is the first one, in batch order
\* then line order, that is not skipped, has the item's key and (with
\* match_timecode) passes the temporal check; an item has no Record recorded
\* only if there is no such Record.
C1_FirstAcceptingRecord ==
    \A k \in MediaItems :
        Processed(k) =>
            IF \E p \in Places : Accepting(k, p)
            THEN \E p \in Places :
                    /\ Accepting(k, p)
                    /\ \A q \in Places : Accepting(k, q) => (q = p \/ Before(p, q))
                    /\ ItemOf(k).csv_line = Some(p)
                    /\ ItemOf(k).csv_file = Some(csvs[p[1]][1])
            ELSE ItemOf(k).csv_line = None

\* a finished run with match_timecode in which an item is matched to a Record
\* that comes after a key-equal Record failing the temporal check
C1_Witness ==
    /\ pc = "csv_matching_done"
    /\ csv_matching.match_timecode
    /\ \E k \in MediaItems : \E p, q \in Places :
           /\ ItemOf(k).csv_line = Some(p)
           /\ Before(q, p)
           /\ ~LineAt(q).csv_skip_line /\ KeyEqual(k, q) /\ ~Contained(k, q)

\* C5: with match_timecode, every recorded match has all four frame values
\* present, record.sourceIn >= item.timecodeIn and record.sourceOut <=
\* item.timecodeOut.
C5_MatchesAreContained ==
    csv_matching.match_timecode =>
        \A k \in MediaItems :
            ItemOf(k).csv_line # None => Contained(k, ItemOf(k).csv_line[1])

\* a finished run with match_timecode: the item of range [5,25] is matched to
\* a Record of range [10,20], the item of range [12,18] has a key-equal
\* Record of range [10,20] and is not matched
C5_Witness ==
    /\ pc = "csv_matching_done"
    /\ csv_matching.match_timecode
    /\ \E k \in MediaItems :
           /\ ItemOf(k).metadata = Some(Frames(5, 25))
           /\ ItemOf(k).csv_line # None
           /\ LineAt(ItemOf(k).csv_line[1]).csv_sin_frames = Some(10)
           /\ LineAt(ItemOf(k).csv_line[1]).csv_sout_frames = Some(20)
    /\ \E k \in MediaItems :
           /\ ItemOf(k).metadata = Some(Frames(12, 18))
           /\ ItemOf(k).csv_line = None
           /\ \E p \in Places :
                  /\ KeyEqual(k, p) /\ ~LineAt(p).csv_skip_line
                  /\ LineAt(p).csv_sin_frames = Some(10)
                  /\ LineAt(p).csv_sout_frames = Some(20)

\* C6: an item whose key is the csv_key of no Record that is not skipped is in
\* the unmatched list and has no Record recorded.
C6_NoKeyMeansUnmatched ==
    \A k \in MediaItems :
        (Processed(k) /\ \A p \in Places : LineAt(p).csv_skip_line \/ ~KeyEqual(k, p))
            => (ItemOf(k).file \in Unmatched /\ ItemOf(k).csv_line = None)

\* a finished run that matched one item and reported another, whose key no
\* Record has
C6_Witness ==
    /\ pc = "csv_matching_done"
    /\ matched_media_counter = 1
    /\ \E k \in MediaItems :
           /\ \A p \in Places : LineAt(p).csv_skip_line \/ ~KeyEqual(k, p)
           /\ media_not_matched = <<ItemOf(k).file>>

\* C7: the Record recorded for a MediaItem is never one with skip = true.
C7_SkippedNeverMatched ==
    \A k \in MediaItems :
        ItemOf(k).csv_line # None => ~LineAt(ItemOf(k).csv_line[1]).csv_skip_line

\* a finished run without match_timecode in which a skipped Record's column
\* derives the key of an item, and the item is reported unmatched
C7_Witness ==
    /\ pc = "csv_matching_done"
    /\ ~csv_matching.match_timecode
    /\ \E k \in MediaItems : \E p \in Places :
           /\ LineAt(p).csv_skip_line
           /\ PrepKey(LineAt(p), csv_matching) = KeyOf(k)
           /\ ItemOf(k).csv_line = None
           /\ ItemOf(k).file \in Unmatched


(***************************************************************************)
(* Output assembly: matched_media_to_edls                                  *)
(***************************************************************************)
\* str.replace(a, b) for single characters
Replace(s, a, b) == [i \in 1..Len(s) |-> IF s[i] = a THEN b ELSE s[i]]

\* ' ' * n: the empty string when n <= 0
Spaces(n) == [i \in 1..n |-> " "]

\* the line a matched media_dict refers to
CsvLineOf(k) == csvs[media[k][2].csv_line[1][1]][2][media[k][2].csv_line[1][2]]

\* The loop that rearranges self.media by csv file, over media[i..]. An item
\* of by_csv is [csv_file or None, list of media items]; a media item is
\* referred to by its index in self.media. A list is appended to only when
\* the csv file is not None; the None list keeps the last unmatched item.
RECURSIVE ByCsvLoop(_, _)
ByCsvLoop(i, acc) ==
    IF i > Len(media) THEN acc
    ELSE LET _f == media[i][2].csv_file
             _exists == IF _f \in DictKeys(acc) THEN DictGet(acc, _f) ELSE <<>>
         IN  ByCsvLoop(i + 1,
                 IF _exists # <<>> /\ _f # None /\ _f # Some(<<>>)
                 THEN DictSet(acc, _f, Append(_exists, i))
                 ELSE DictSet(acc, _f, <<i>>))

\* the sort key of a media item: csv_line.csv_rin_frames
RinKey(k) == CsvLineOf(k).csv_rin_frames

\* sorted() compares the keys with <, which raises TypeError for None
RinSortRaises(medias) ==
    Len(medias) >= 2 /\ \E i \in 1..Len(medias) : RinKey(medias[i]) = None

\* the place of k in a sorted list: after every key that is not greater
RECURSIVE InsertByRin(_, _)
InsertByRin(sorted, k) ==
    IF Len(sorted) = 0 THEN <<k>>
    ELSE IF RinKey(k)[1] < RinKey(sorted[1])[1] THEN <<k>> \o sorted
    ELSE <<sorted[1]>> \o InsertByRin(Tail(sorted), k)

RECURSIVE SortedFrom(_, _, _)
SortedFrom(medias, i, acc) ==
    IF i > Len(medias) THEN acc
    ELSE SortedFrom(medias, i + 1, InsertByRin(acc, medias[i]))

\* a list left in the order of by_csv
Unsorted(medias) == medias

\* sorted(medias, key=csv_rin_frames): stable, ascending; a list of one item
\* is returned without a comparison
SortedByRin(medias) ==
    IF Len(medias) <= 1 THEN medias ELSE SortedFrom(medias, 1, <<>>)

\* the tokens media_to_edl_line hands to regex_test
EdlTokens(k) ==
    (<<"F", "i", "l", "e">> :> CsvLineOf(k).File)
    @@ (<<"m", "e", "d", "i", "a", "_", "p", "a", "t", "h">> :> media[k][2].file)
    @@ (<<"m", "e", "d", "i", "a", "_", "f", "i", "l", "e">> :> basename(media[k][2].file))
    @@ (<<"m", "e", "d", "i", "a", "_", "k", "e", "y">> :> media[k][1])

\* the reel of a row: 'AX' when the regex result is empty, spaces up to
\* max_reel characters, and one space more
Reel(k, prefs) ==
    LET result == regex_test(prefs.edl_reel.source, EdlTokens(k),
                             prefs.edl_reel.pattern, prefs.edl_reel.repl)
        reel == IF result = <<>> THEN <<"A", "X">> ELSE result
    IN  reel \o Spaces(prefs.edl.max_reel - Len(reel)) \o <<" ">>

\* media_to_edl_line: the parts of the text of one row, in order
media_to_edl_line(k, line_number, prefs) ==
    [number |-> ZFill(IntToStr(line_number), 3) \o <<" ", " ">>,
     reel |-> Reel(k, prefs),
     vc |-> "V     C        ",
     tcs |-> Join(<<CsvLineOf(k).csv_sin, CsvLineOf(k).csv_sout,
                    CsvLineOf(k).csv_rin, CsvLineOf(k).csv_rout>>, " "),
     fcm |-> IF prefs.edl_clip.export
             THEN Some(regex_test(prefs.edl_clip.source, EdlTokens(k),
                                  prefs.edl_clip.pattern, prefs.edl_clip.repl))
             ELSE None,
     fp |-> IF prefs.edl_clip_path.export
            THEN Some(regex_test(prefs.edl_clip_path.source, EdlTokens(k),
                                 prefs.edl_clip_path.pattern, prefs.edl_clip_path.repl))
            ELSE None]

\* the folder of a document
EdlRoot(first_media_path, prefs) ==
    IF prefs.edl.use_media_root THEN first_media_path
    ELSE IF prefs.edl.use_media_root_up
         THEN LET parts == Split(first_media_path, "/")
              IN  Join(SubSeq(parts, 1, Len(parts) - 1), "/")
         ELSE Replace(prefs.edl.custom_folder, "\\", "/")

\* the name of a document
EdlName(one_csv, first_media_path, prefs) ==
    LET edl_name ==
            IF prefs.edl.edl_name_from_csv
            THEN SubSeq(basename(one_csv), 1, Len(basename(one_csv)) - 4)
            ELSE IF prefs.edl.edl_name_from_media_folder
                 THEN LET parts == Split(first_media_path, "/") IN parts[Len(parts)]
                 ELSE prefs.edl.edl_name_custom
    IN  prefs.edl.edl_name_prefix \o edl_name \o prefs.edl.edl_name_suffix

\* the body of "for one_csv, medias in by_csv.items()" for a csv that is not
\* None and whose list sorts: the path and the text of the document, the
\* text as its title, its frame code mode line and its rows
EdlOf(one_csv, medias, prefs) ==
    LET sorted_medias == SortedByRin(medias)
        first_media_path == Replace(dirname(media[sorted_medias[1]][2].file), "\\", "/")
        edl_name == EdlName(one_csv, first_media_path, prefs)
    IN  [edl_path |-> EdlRoot(first_media_path, prefs) \o <<"/">> \o edl_name
                          \o <<".", "e", "d", "l">>,
         lines |-> [title |-> edl_name,
                    fcm |-> IF prefs.edl.drop_frame THEN "FCM: DROP FRAME"
                            ELSE "FCM: NON-DROP FRAME",
                    rows |-> [cnt \in 1..Len(sorted_medias) |->
                                 media_to_edl_line(sorted_medias[cnt], cnt, prefs)]]]

\* ---- the inputs
MaxEdlMedia == 3

\* four media files in three folders; the probe gives each a timecode range
EdlMediaPool ==
    { [file |-> f, metadata |-> Some(Frames(5, 25))] :
        f \in { <<"p", "/", "m", "/", "a", "1">>, <<"p", "/", "n", "/", "b", "1">>,
                <<"p", "/", "m", "/", "c", "1">>, <<"p", "/", "m", "/", "d", "1">> } }

\* csv lines for the files a, b and c, the record-in frames out of order,
\* and a second line for c whose record-in timecode is empty
EdlLines ==
    << Line(<<"a", "x">>, Some(10), Some(20), Some(50), FALSE),
       Line(<<"b", "x">>, Some(10), Some(20), Some(10), FALSE),
       Line(<<"c", "x">>, Some(10), Some(20), Some(30), FALSE),
       Line(<<"c", "y">>, Some(10), Some(20), None, FALSE) >>

\* the lines of EdlLines at the places S, in their order
RECURSIVE Chosen(_, _)
Chosen(S, i) ==
    IF i > Len(EdlLines) THEN <<>>
    ELSE (IF i \in S THEN <<EdlLines[i]>> ELSE <<>>) \o Chosen(S, i + 1)

EdlCsvs ==
    { [i \in 1..Len(cut) |-> <<CsvPathOf(i), cut[i]>>] :
        cut \in UNION { Cuts(Chosen(S, 1)) :
                    S \in { T \in SUBSET (1..Len(EdlLines)) :
                              T # {} /\ Cardinality(T) <= MaxLines } } }

\* the reel rules: the media key, the media path, a pattern that does not compile
ReelRules ==
    { [source |-> <<"{", "m", "e", "d", "i", "a", "_", "k", "e", "y", "}">>,
       pattern |-> "(.+)", repl |-> <<>>],
      [source |-> <<"{", "m", "e", "d", "i", "a", "_", "p", "a", "t", "h", "}">>,
       pattern |-> "(.+)", repl |-> <<>>],
      [source |-> <<"{", "m", "e", "d", "i", "a", "_", "k", "e", "y", "}">>,
       pattern |-> "(", repl |-> <<>>] }

\* prefs['edl'] with a root policy and a name policy
EdlPolicy(max_reel, root, name) ==
    [frame_rate |-> FrameRate, drop_frame |-> FALSE, max_reel |-> max_reel,
     custom_folder |-> <<"o">>,
     use_media_root |-> root = "media", use_media_root_up |-> root = "up",
     edl_name_custom |-> <<"n">>,
     edl_name_from_csv |-> name = "csv",
     edl_name_from_media_folder |-> name = "folder",
     edl_name_prefix |-> <<>>, edl_name_suffix |-> <<"_", "x">>]

EdlPrefs ==
    { [edl |-> EdlPolicy(w, p[1], p[2]),
       edl_reel |-> r,
       edl_clip |-> [source |-> <<"{", "m", "e", "d", "i", "a", "_", "f", "i", "l", "e", "}">>,
                     pattern |-> "(.+)", repl |-> <<>>, export |-> TRUE],
       edl_clip_path |-> [source |-> <<"{", "m", "e", "d", "i", "a", "_", "p", "a", "t", "h", "}">>,
                          pattern |-> "(.+)", repl |-> <<>>, export |-> FALSE]] :
        w \in {1, 3}, r \in ReelRules,
        p \in { <<"custom", "custom">>, <<"custom", "csv">>,
                <<"media", "csv">>, <<"up", "folder">> } }

\* the state after read_csvs of a run that goes on to write the documents
EdlInit ==
    /\ pc = "find_media"
    /\ csv_matching = [column |-> "File", csv_pattern |-> "^(.)", csv_repl |-> <<>>,
                       media |-> <<"{", "n", "a", "m", "e", "}">>,
                       media_pattern |-> "^(.)", media_repl |-> <<>>,
                       match_timecode |-> FALSE]
    /\ media_files \in UNION { Arrangements(EdlMediaPool, n) : n \in 1..MaxEdlMedia }
    /\ csvs \in EdlCsvs
    /\ media = <<>>
    /\ media_i = 0
    /\ media_not_matched = <<>>
    /\ matched_media_counter = 0
    /\ runs = 0
    /\ prev_keys = None
    /\ edl_prefs \in EdlPrefs
    /\ by_csv = <<>>
    /\ edl_i = 0
    /\ edls = <<>>
    /\ written = <<>>
    /\ TCIdle
    /\ SkipIdle
    /\ GroupIdle

\* matched_media_to_edls, lines 750-759: self.media rearranged by csv file
edl_by_csv ==
    /\ pc = "csv_matching_done"
    /\ edl_prefs # <<>>
    /\ by_csv' = ByCsvLoop(1, <<>>)
    /\ edl_i' = 1
    /\ pc' = "edl_assemble"
    /\ UNCHANGED <<edl_prefs, edls, written, matchVars, tcVars, skipVars, groupVars>>

\* one iteration of "for one_csv, medias in by_csv.items()"
edl_assemble ==
    /\ pc = "edl_assemble"
    /\ edl_i <= Len(by_csv)
    /\ LET one_csv == by_csv[edl_i][1]
           medias == by_csv[edl_i][2]
       IN  IF one_csv = None
           THEN edl_i' = edl_i + 1 /\ UNCHANGED <<pc, edls>>
           ELSE IF RinSortRaises(medias)
                THEN pc' = "TypeError" /\ UNCHANGED <<edl_i, edls>>
                ELSE LET edl == EdlOf(one_csv[1], medias, edl_prefs)
                     IN  /\ edls' = DictSet(edls, edl.edl_path, edl.lines)
                         /\ edl_i' = edl_i + 1
                         /\ UNCHANGED pc
    /\ UNCHANGED <<edl_prefs, by_csv, written, matchVars, tcVars, skipVars, groupVars>>

\* the end of the loop: the documents are counted and written next
edl_assembled ==
    /\ pc = "edl_assemble"
    /\ edl_i > Len(by_csv)
    /\ pc' = "edl_write"
    /\ edl_i' = 1
    /\ UNCHANGED <<edl_prefs, by_csv, edls, written, matchVars, tcVars, skipVars,
                   groupVars>>

\* a handler that lets the exception of a failed write through
ExceptCatches_nothing(ok) == ok

\* "except Exception as e: logger.error(...)": whatever makedirs, open or
\* write raises is caught and the loop goes on
ExceptCatches(ok) == TRUE

\* one iteration of "for edl_file, edl_content in self.edls.items()": the
\* folder is made and the file written, or an exception is caught and logged
edl_write ==
    /\ pc = "edl_write"
    /\ edl_i <= Len(edls)
    /\ \E ok \in BOOLEAN :
          /\ written' = Append(written, [edl_file |-> edls[edl_i][1], ok |-> ok])
          /\ IF ExceptCatches(ok)
             THEN edl_i' = edl_i + 1 /\ UNCHANGED pc
             ELSE pc' = "OSError" /\ UNCHANGED edl_i
    /\ UNCHANGED <<edl_prefs, by_csv, edls, matchVars, tcVars, skipVars, groupVars>>

edl_written ==
    /\ pc = "edl_write"
    /\ edl_i > Len(edls)
    /\ pc' = "done"
    /\ UNCHANGED <<edlVars, matchVars, tcVars, skipVars, groupVars>>

\* main: read_csvs is over; find_media, prep_matching, csv_matching and
\* matched_media_to_edls follow
EdlNext ==
    find_media \/ prep_matching \/ csv_matching_enter \/ csv_matching_item
        \/ csv_matching_report \/ edl_by_csv \/ edl_assemble \/ edl_assembled
        \/ edl_write \/ edl_written

SpecEdl == EdlInit /\ [][EdlNext]_vars

\* ---- what the claims speak of
\* the documents assembled so far
Documents == 1..Len(edls)

RowsOf(d) == edls[d][2].rows

\* the sequence number of a row, without the two spaces that follow it
NumberOf(row) == SubSeq(row.number, 1, Len(row.number) - 2)

\* the destination-in frame count of a row, None for an empty timecode
RinOf(row) == csv_tc_to_frames(Split(row.tcs, " ")[3])

\* the reel label of a row, without the space that separates it from the rest
LabelOf(row) == SubSeq(row.reel, 1, Len(row.reel) - 1)

\* the batches of by_csv that have a csv file
Batches == { b \in 1..Len(by_csv) : by_csv[b][1] # None }

\* document d renders the matches of batch b, each as one row
Renders(d, b) ==
    /\ Len(RowsOf(d)) = Len(by_csv[b][2])
    /\ { RowsOf(d)[i].tcs : i \in 1..Len(RowsOf(d)) }
         = { media_to_edl_line(by_csv[b][2][i], 1, edl_prefs).tcs :
               i \in 1..Len(by_csv[b][2]) }

\* C8: every document holds the matches of a batch, its rows are numbered
\* 001, 002, ... without a gap, and the destination-in frame counts of its
\* rows ascend.
C8_RowsAscendAndNumbered ==
    \A d \in Documents :
        /\ \E b \in Batches : Renders(d, b)
        /\ \A i \in 1..Len(RowsOf(d)) :
              NumberOf(RowsOf(d)[i]) = ZFill(IntToStr(i), 3)
        /\ \A i, j \in 1..Len(RowsOf(d)) :
              i < j => /\ RinOf(RowsOf(d)[i]) # None
                       /\ RinOf(RowsOf(d)[j]) # None
                       /\ RinOf(RowsOf(d)[i])[1] <= RinOf(RowsOf(d)[j])[1]

\* a batch whose matches are at destination-in frames 50, 10, 30 in the
\* order of by_csv has a document with the rows 001 at frame 10, 002 at frame
\* 30 and 003 at frame 50
C8_Witness ==
    \E d \in Documents : \E b \in Batches :
        /\ Renders(d, b)
        /\ [i \in 1..Len(by_csv[b][2]) |-> RinKey(by_csv[b][2][i])]
             = <<Some(50), Some(10), Some(30)>>
        /\ [i \in 1..Len(RowsOf(d)) |-> <<NumberOf(RowsOf(d)[i]), RinOf(RowsOf(d)[i])>>]
             = << <<<<"0", "0", "1">>, Some(10)>>,
                  <<<<"0", "0", "2">>, Some(30)>>,
                  <<<<"0", "0", "3">>, Some(50)>> >>

\* C9: the reel label of every row has exactly max_reel characters, and it
\* is AX followed by spaces when the derived reel is empty. The code pads a
\* short reel and leaves a long one at its length, so this fails for a reel
\* longer than max_reel.
C9_ReelWidthExact ==
    \A d \in Documents : \A i \in 1..Len(RowsOf(d)) :
        Len(LabelOf(RowsOf(d)[i])) = edl_prefs.edl.max_reel


(***************************************************************************)
(* The matching passes run again: prep_matching, csv_matching              *)
(***************************************************************************)
MaxRuns == 2

\* the csv_key of every line, by csv file and line
KeysOf(all) ==
    [c \in 1..Len(all) |-> [l \in 1..Len(all[c][2]) |-> all[c][2][l].csv_key]]

\* three media files: two with a timecode range, one without metadata
RerunMediaPool ==
    { [file |-> <<"m", "/", "a", "1">>, metadata |-> Some(Frames(5, 25))],
      [file |-> <<"m", "/", "b", "1">>, metadata |-> Some(Frames(12, 18))],
      [file |-> <<"m", "/", "a", "2">>, metadata |-> None] }

\* three csv lines, the last one skipped by a skip filter
RerunLines ==
    << Line(<<"a", "x">>, Some(10), Some(20), Some(50), FALSE),
       Line(<<"b", "y">>, Some(13), Some(17), Some(30), FALSE),
       Line(<<"b", "z">>, Some(13), Some(17), Some(20), TRUE) >>

RECURSIVE ChosenOf(_, _, _)
ChosenOf(lines, S, i) ==
    IF i > Len(lines) THEN <<>>
    ELSE (IF i \in S THEN <<lines[i]>> ELSE <<>>) \o ChosenOf(lines, S, i + 1)

\* read_csvs keeps a csv file only if it has a line that is not skipped
RerunCsvs ==
    { [i \in 1..Len(cut) |-> <<CsvPathOf(i), cut[i]>>] :
        cut \in { c \in UNION { Cuts(ChosenOf(RerunLines, S, 1)) :
                            S \in { T \in SUBSET (1..Len(RerunLines)) :
                                      T # {} /\ Cardinality(T) <= MaxLines } } :
                  \A i \in 1..Len(c) : \E j \in 1..Len(c[i]) : ~c[i][j].csv_skip_line } }

\* the state after read_csvs of a tool whose passes are run more than once
RerunInit ==
    /\ pc = "find_media"
    /\ csv_matching \in [column : {"File"}, csv_pattern : {"^(.)"}, csv_repl : {<<>>},
                         media : {<<"{", "n", "a", "m", "e", "}">>},
                         media_pattern : {"^(.)"}, media_repl : {<<>>},
                         match_timecode : BOOLEAN]
    /\ media_files \in UNION { Arrangements(RerunMediaPool, n) : n \in 1..MaxMedia }
    /\ csvs \in RerunCsvs
    /\ media = <<>>
    /\ media_i = 0
    /\ media_not_matched = <<>>
    /\ matched_media_counter = 0
    /\ runs = 0
    /\ prev_keys = None
    /\ TCIdle
    /\ SkipIdle
    /\ GroupIdle
    /\ EdlIdle

\* prep_matching and csv_matching are called again, nothing was changed
rerun_unmodified ==
    /\ pc = "csv_matching_done"
    /\ runs < MaxRuns
    /\ runs' = runs + 1
    /\ prev_keys' = Some(KeysOf(csvs))
    /\ pc' = "prep_matching"
    /\ UNCHANGED <<csv_matching, media_files, csvs, media, media_i, media_not_matched,
                   matched_media_counter, tcVars, skipVars, groupVars, edlVars>>

\* they are called again after the skip flag of one line was changed
rerun_skip_changed ==
    /\ pc = "csv_matching_done"
    /\ runs < MaxRuns
    /\ \E c \in 1..Len(csvs) : \E l \in 1..Len(csvs[c][2]) :
          csvs' = [csvs EXCEPT ![c][2][l].csv_skip_line = ~@]
    /\ runs' = runs + 1
    /\ prev_keys' = None
    /\ pc' = "prep_matching"
    /\ UNCHANGED <<csv_matching, media_files, media, media_i, media_not_matched,
                   matched_media_counter, tcVars, skipVars, groupVars, edlVars>>

\* they are called again after prefs['csv_matching']['match_timecode'] was changed
rerun_config_changed ==
    /\ pc = "csv_matching_done"
    /\ runs < MaxRuns
    /\ csv_matching' = [csv_matching EXCEPT !.match_timecode = ~@]
    /\ runs' = runs + 1
    /\ prev_keys' = None
    /\ pc' = "prep_matching"
    /\ UNCHANGED <<media_files, csvs, media, media_i, media_not_matched,
                   matched_media_counter, tcVars, skipVars, groupVars, edlVars>>

RerunNext ==
    find_media \/ prep_matching \/ csv_matching_enter \/ csv_matching_item
        \/ csv_matching_report \/ rerun_unmodified \/ rerun_skip_changed
        \/ rerun_config_changed

SpecRerun == RerunInit /\ [][RerunNext]_vars

\* prep_matching has returned in the current run
Prepared ==
    pc \in {"csv_matching", "csv_matching_loop", "csv_matching_done", "KeyError",
            "EditToolException"}

\* C11: after a run of prep_matching on lines that were not modified since
\* the run before, every line has the csv_key it had after the run before;
\* and after any run every skipped line has the empty csv_key.
C11_PrepIdempotent ==
    Prepared =>
        /\ prev_keys # None => KeysOf(csvs) = prev_keys[1]
        /\ \A p \in Places : LineAt(p).csv_skip_line => LineAt(p).csv_key = <<>>

\* a second run on unmodified lines is over: a line has a key, a skipped line
\* has none
C11_Witness ==
    /\ Prepared
    /\ runs >= 1
    /\ prev_keys # None
    /\ \E p \in Places : LineAt(p).csv_key # <<>>
    /\ \E p \in Places : LineAt(p).csv_skip_line /\ LineAt(p).csv_key = <<>>


(***************************************************************************)
(* Discovered files, media items and their matches                         *)
(***************************************************************************)
\* the discovered media files, by their place in the listing
Files == 1..Len(media_files)

\* the key find_media derives for a discovered file
FileKey(f) ==
    regex_test(csv_matching.media, parse_file_name(media_files[f].file),
               csv_matching.media_pattern, csv_matching.media_repl)

\* line p is not skipped, has the key of file f and, with match_timecode,
\* contains the range of the metadata probed for f
AcceptsFile(f, p) ==
    /\ ~LineAt(p).csv_skip_line
    /\ FileKey(f) # <<>>
    /\ LineAt(p).csv_key = FileKey(f)
    /\ csv_matching.match_timecode =>
          /\ media_files[f].metadata # None
          /\ is_tc_matching(LineAt(p).csv_sin_frames,
                            media_files[f].metadata[1].tc_in_frames,
                            LineAt(p).csv_sout_frames,
                            media_files[f].metadata[1].tc_out_frames)

\* the media items that hold file f and have a line recorded
MatchResultsOf(f) ==
    { k \in MediaItems : ItemOf(k).file = media_files[f].file /\ ItemOf(k).csv_line # None }

\* C12: a line is not consumed by a match, so two discovered files that
\* derive the same key and are both accepted by a line are both matched: each
\* is the file of a media item with a line recorded. In the code the second
\* file replaces the first in self.media, so only one of them is matched.
C12_SameKeyFilesBothMatched ==
    pc = "csv_matching_done" =>
        \A f, g \in Files :
            (f # g /\ FileKey(f) = FileKey(g)
                /\ \E p \in Places : AcceptsFile(f, p) /\ AcceptsFile(g, p))
            => (MatchResultsOf(f) # {} /\ MatchResultsOf(g) # {})

\* C13: csv_matching never stops at a media item whose metadata is empty,
\* and when it is over every such item has a line recorded or is in the
\* unmatched list. With match_timecode the code reads tc_in_frames of the
\* empty metadata and raises KeyError.
C13_AbsentMetadataNeverAborts ==
    /\ pc # "KeyError"
    /\ pc = "csv_matching_done" =>
          \A k \in MediaItems :
              ItemOf(k).metadata = None =>
                  (ItemOf(k).csv_line # None \/ ItemOf(k).file \in Unmatched)

\* C14: csv_matching raises EditToolException exactly when self.media or
\* self.csvs is empty at its start, and then no media item has a line
\* recorded, no line has a media file recorded and nothing is reported.
C14_EmptyCollectionAborts ==
    /\ pc = "EditToolException" =>
          /\ media = <<>> \/ csvs = <<>>
          /\ \A k \in MediaItems : ItemOf(k).csv_line = None /\ ItemOf(k).csv_file = None
          /\ \A p \in Places : LineAt(p).csv_matched_media = None
          /\ media_not_matched = <<>>
          /\ matched_media_counter = 0
    /\ pc \in {"csv_matching_loop", "csv_matching_done", "KeyError"} =>
          media # <<>> /\ csvs # <<>>

\* csv_matching has raised with csv lines that have keys and no media item
C14_Witness ==
    /\ pc = "EditToolException"
    /\ media = <<>>
    /\ \E p \in Places : LineAt(p).csv_key # <<>>

\* C18: when csv_matching is over every discovered file is the file of
\* exactly one media item with a line recorded, or is in the unmatched list.
\* The code leaves out a file whose key is empty and a file whose key a later
\* file derives too.
C18_EveryFileAccounted ==
    pc = "csv_matching_done" =>
        \A f \in Files :
            \/ Cardinality(MatchResultsOf(f)) = 1
            \/ media_files[f].file \in Unmatched


(***************************************************************************)
(* Documents written, documents per batch, stale matches, grouping aborts  *)
(***************************************************************************)
\* the paths of the write attempts so far, in order
Attempted == [i \in 1..Len(written) |-> written[i].edl_file]

\* C15: no exception leaves the write loop; while it runs the documents
\* before the current one were attempted once each, in order, and when it
\* is over every document of self.edls was attempted exactly once, whichever
\* writes failed.
C15_EveryDocumentAttempted ==
    /\ pc # "OSError"
    /\ pc = "edl_write" =>
          Attempted = [i \in 1..(edl_i - 1) |-> edls[i][1]]
    /\ pc = "done" =>
          Attempted = [i \in 1..Len(edls) |-> edls[i][1]]

\* the loop is over, the first of two or more writes failed and a later one
\* succeeded
C15_Witness ==
    /\ pc = "done"
    /\ Len(edls) >= 2
    /\ Len(written) = Len(edls)
    /\ ~written[1].ok
    /\ written[2].ok

RECURSIVE SumOver(_, _)
SumOver(f, S) ==
    IF S = {} THEN 0
    ELSE LET x == CHOOSE y \in S : TRUE IN f[x] + SumOver(f, S \ {x})

\* C19: after the assembly loop there is one document for every batch of
\* by_csv that has a csv file, and the documents have as many rows in all as
\* these batches have matches. With a root and a name that do not depend on
\* the batch the code computes the same edl_path for every batch, and each
\* document replaces the one before.
C19_OneDocumentPerBatch ==
    pc \in {"edl_write", "done"} =>
        /\ Len(edls) = Cardinality(Batches)
        /\ SumOver([d \in Documents |-> Len(RowsOf(d))], Documents)
             = SumOver([b \in Batches |-> Len(by_csv[b][2])], Batches)

\* C16: when a run of csv_matching is over, a media item that no line
\* accepts has no line recorded. csv_matching sets csv_line and csv_file when
\* it finds a line and never clears them, so an item matched in an earlier
\* run keeps its match.
C16_NoStaleMatch ==
    pc = "csv_matching_done" =>
        \A k \in MediaItems :
            (~ \E p \in Places : Accepting(k, p)) =>
                (ItemOf(k).csv_line = None /\ ItemOf(k).csv_file = None)

\* C17: with both patterns valid _group_csvs never raises, and when it has
\* returned, every csv file it was given a group for is in a sorted group.
\* sorted() raises TypeError for a group of two or more files one of which
\* has no sort key.
C17_GroupingNeverAborts ==
    PatternsValid =>
        /\ pc # "TypeError"
        /\ pc = "group_done" =>
              \A i \in 1..Len(sort_me) : sort_me[i][1] \in DictKeys(sort_me_sorted)

====
